---- MODULE Spec2Model ----
(***************************************************************************)
(* Model of xroche/stringswitch: the constexpr FNV-1a hash of               *)
(* switch_fnv1a.h (traits, engine, entry wrappers, lowercase adapter) and   *)
(* the callers of main.cpp (dispatch, bench, main).                         *)
(*                                                                          *)
(* An unsigned integer of Bits bits (uint32_t, uint64_t, __uint128_t) is a  *)
(* sequence of Bits/8 limbs in 0..255, least significant limb first, so     *)
(* that the 128-bit arithmetic of the code is computed exactly and its      *)
(* wraparound modulo 2^Bits is explicit.  A byte buffer is a sequence of    *)
(* bytes in 0..255; reading it through a `const char*` yields the signed    *)
(* value of the byte.                                                       *)
(***************************************************************************)
EXTENDS Integers, Sequences, FiniteSets, TLC

(***************************************************************************)
(* Bounds of the model.                                                     *)
(***************************************************************************)
\* longest generated buffer (named literals may be longer)
MaxLen == 3
\* largest duration, in whole milliseconds, a benchmark phase measures
MaxMs == 4
\* largest number of command-line arguments after argv[0]
MaxArgs == 2

(***************************************************************************)
(* Fixed-width unsigned integers.                                           *)
(***************************************************************************)
\* the widths fnv1a_traits is specialised for
Widths == {32, 64, 128}

\* sizeof(Type) of fnv1a_traits<Bits>
Limbs(Bits) == Bits \div 8

\* the hexadecimal literal `digits`, as written in the source, as a value
\* of Bits bits
HexDigit(c) == (CHOOSE d \in 1..16 : SubSeq("0123456789abcdef", d, d) = c) - 1

HexByte(digits, k) ==
    LET n  == Len(digits)
        lo == IF n - 2 * k >= 1 THEN HexDigit(SubSeq(digits, n - 2 * k, n - 2 * k)) ELSE 0
        hi == IF n - 2 * k - 1 >= 1
              THEN HexDigit(SubSeq(digits, n - 2 * k - 1, n - 2 * k - 1)) ELSE 0
    IN  16 * hi + lo

Hex(digits, Bits) == [k \in 1..Limbs(Bits) |-> HexByte(digits, k - 1)]

\* conversion of a uint8_t to Type (zero extension)
FromByte(byte, Bits) == [k \in 1..Limbs(Bits) |-> IF k = 1 THEN byte ELSE 0]

\* bitwise exclusive or of two values in 0..255
RECURSIVE Xor8(_, _)
Xor8(a, b) ==
    IF a = 0 THEN b
    ELSE IF b = 0 THEN a
    ELSE ((a + b) % 2) + 2 * Xor8(a \div 2, b \div 2)

\* a ^ b on Type
Xor(a, b) == [k \in 1..Len(a) |-> Xor8(a[k], b[k])]

\* sum over i in 1..k of a[i] * b[k + 1 - i]: column k of the schoolbook product
RECURSIVE Column(_, _, _, _)
Column(a, b, k, i) ==
    IF i > k THEN 0 ELSE a[i] * b[k + 1 - i] + Column(a, b, k, i + 1)

\* the limbs of a * b from limb k on, given the carry into limb k; the
\* carry out of the last limb is dropped (unsigned wraparound)
RECURSIVE MulFrom(_, _, _, _)
MulFrom(a, b, k, carry) ==
    IF k > Len(a) THEN << >>
    ELSE LET t == Column(a, b, k, 1) + carry
         IN  << t % 256 >> \o MulFrom(a, b, k + 1, t \div 256)

\* a * b on Type: the product modulo 2^Bits
Mul(a, b) == MulFrom(a, b, 1, 0)

\* Pack128 with its halves exchanged
Pack128Swapped(high, low) == high \o low

\* (high << 64) + low, for 64-bit high and low
Pack128(high, low) == low \o high

(***************************************************************************)
(* fnv1a_traits<32>, fnv1a_traits<64>, fnv1a_traits<128>                    *)
(***************************************************************************)
Prime32 == Hex("1000193", 32)
Offset32 == Hex("811c9dc5", 32)

Prime64 == Hex("100000001b3", 64)
Offset64 == Hex("cbf29ce484222325", 64)

Prime128 == Pack128(Hex("1000000", 64), Hex("000000000000013b", 64))
Offset128 == Pack128(Hex("6c62272e07bb0142", 64), Hex("62b821756295c58d", 64))

\* fnv1a_traits<Bits>::Prime
Prime(Bits) ==
    CASE Bits = 32 -> Prime32 [] Bits = 64 -> Prime64 [] Bits = 128 -> Prime128

\* fnv1a_traits<Bits>::Offset
Offset(Bits) ==
    CASE Bits = 32 -> Offset32 [] Bits = 64 -> Offset64 [] Bits = 128 -> Offset128

(***************************************************************************)
(* Byte buffers and characters.                                             *)
(***************************************************************************)
\* the value read from a byte of memory through a (signed) char lvalue
ToChar(b) == IF b >= 128 THEN b - 256 ELSE b

\* conversion of an integer to uint8_t
ToUint8(c) == c % 256

\* the code of the ASCII character c, for the characters the literals of
\* the program use: '!' is 33, '0' is 48, 'A' is 65, 'a' is 97
Ord(c) ==
    LET At(table, first) ==
            IF \E i \in 1..Len(table) : SubSeq(table, i, i) = c
            THEN first - 1 + (CHOOSE i \in 1..Len(table) : SubSeq(table, i, i) = c)
            ELSE -1
    IN  CASE At("!", 33) >= 0 -> At("!", 33)
          [] At("0123456789", 48) >= 0 -> At("0123456789", 48)
          [] At("ABCDEFGHIJKLMNOPQRSTUVWXYZ", 65) >= 0 -> At("ABCDEFGHIJKLMNOPQRSTUVWXYZ", 65)
          [] At("abcdefghijklmnopqrstuvwxyz", 97) >= 0 -> At("abcdefghijklmnopqrstuvwxyz", 97)

\* the bytes of a string literal, without its terminator
Bytes(str) == [i \in 1..Len(str) |-> Ord(SubSeq(str, i, i))]

\* a `const char*` to the first byte of buffer `bytes`: element j (from 0)
\* is view[j + 1]
CharPtr(bytes) == [i \in 1..Len(bytes) |-> ToChar(bytes[i])]

\* the storage of a string: its bytes followed by the terminator
CStr(bytes) == bytes \o << 0 >>

(***************************************************************************)
(* fnv1a<Bits>::hash_container                                              *)
(*                                                                          *)
(* A loop state is [j, hash, stopLen, written, reads]: the loop counter, the *)
(* accumulator, the value of *stopLen, whether the call has stored to       *)
(* *stopLen, and the number of elements read from s.                        *)
(***************************************************************************)
\* Fold in the order of FNV-1: multiply, then xor
FoldMultiplyFirst(Bits, hash, byte) ==
    Xor(Mul(hash, Prime(Bits)), FromByte(byte, Bits))

\* hash ^= byte; hash *= Prime
Fold(Bits, hash, byte) == Mul(Xor(hash, FromByte(byte, Bits)), Prime(Bits))

\* Iteration without the `stop != 0` test: a zero byte stops a call that
\* configured no stop byte
IterationStopOnZero(Bits, s, stop, L, st) ==
    LET byte == ToUint8(s[st.j + 1])
    IN  IF byte = stop
        THEN [st EXCEPT !.stopLen = IF L THEN st.j + 1 ELSE @,
                        !.written = L,
                        !.reads = @ + 1,
                        !.brk = TRUE]
        ELSE [st EXCEPT !.hash = Fold(Bits, @, byte),
                        !.reads = @ + 1,
                        !.j = @ + 1]

\* Iteration storing j, not j + 1
IterationStoresIndex(Bits, s, stop, L, st) ==
    LET byte == ToUint8(s[st.j + 1])
    IN  IF stop # 0 /\ byte = stop
        THEN [st EXCEPT !.stopLen = IF L THEN st.j ELSE @,
                        !.written = L,
                        !.reads = @ + 1,
                        !.brk = TRUE]
        ELSE [st EXCEPT !.hash = Fold(Bits, @, byte),
                        !.reads = @ + 1,
                        !.j = @ + 1]

\* Iteration storing the offset on every byte of a stop-byte call
IterationAlwaysStores(Bits, s, stop, L, st) ==
    LET byte == ToUint8(s[st.j + 1])
    IN  IF stop # 0 /\ byte = stop
        THEN [st EXCEPT !.stopLen = IF L THEN st.j + 1 ELSE @,
                        !.written = L,
                        !.reads = @ + 1,
                        !.brk = TRUE]
        ELSE [st EXCEPT !.hash = Fold(Bits, @, byte),
                        !.stopLen = IF L /\ stop # 0 THEN st.j + 1 ELSE @,
                        !.written = IF L /\ stop # 0 THEN TRUE ELSE @,
                        !.reads = @ + 1,
                        !.j = @ + 1]

\* one iteration of the for loop, entered with j < l
Iteration(Bits, s, stop, L, st) ==
    LET byte == ToUint8(s[st.j + 1])
    IN  IF stop # 0 /\ byte = stop
        THEN [st EXCEPT !.stopLen = IF L THEN st.j + 1 ELSE @,
                        !.written = L,
                        !.reads = @ + 1,
                        !.brk = TRUE]
        ELSE [st EXCEPT !.hash = Fold(Bits, @, byte),
                        !.reads = @ + 1,
                        !.j = @ + 1]

RECURSIVE Loop(_, _, _, _, _, _)
Loop(Bits, s, l, stop, L, st) ==
    IF st.j < l /\ ~st.brk
    THEN Loop(Bits, s, l, stop, L, Iteration(Bits, s, stop, L, st))
    ELSE st

\* hash_container starting from the offset basis whatever seed is passed
hash_container_unseeded(Bits, s, l, stop, L, slot, hash) ==
    Loop(Bits, s, l, stop, L,
         [j |-> 0, hash |-> Offset(Bits), stopLen |-> slot, written |-> FALSE,
          reads |-> 0, brk |-> FALSE])

\* hash_container<T, stop, L>(s, l, stopLen, hash): L is TRUE when stopLen
\* is a pointer (slot is then the value it points to before the call) and
\* FALSE when it is nullptr
hash_container(Bits, s, l, stop, L, slot, hash) ==
    Loop(Bits, s, l, stop, L,
         [j |-> 0, hash |-> hash, stopLen |-> slot, written |-> FALSE,
          reads |-> 0, brk |-> FALSE])

(***************************************************************************)
(* fnv1a<Bits>::hash overloads.  Each returns the loop state of the engine  *)
(* call it ends in; the C++ return value is its hash field.                 *)
(***************************************************************************)
\* hash(const C* s, l, stopLen, hash)
hash_ptr(Bits, s, l, stop, L, slot, hash) ==
    hash_container(Bits, s, l, stop, L, slot, hash)

\* hash(const char (&)[l]) passing l, not l - 1
hash_const_array_whole(Bits, s) ==
    hash_ptr(Bits, CharPtr(s), Len(s), 0, FALSE, 0, Offset(Bits))

\* hash(const char (&s)[l]): s is the whole array, terminator included
hash_const_array(Bits, s) ==
    hash_ptr(Bits, CharPtr(s), Len(s) - 1, 0, FALSE, 0, Offset(Bits))

\* __builtin_strlen(s): the number of elements before the first zero
RECURSIVE strlen_from(_, _)
strlen_from(s, j) == IF s[j + 1] = 0 THEN j ELSE strlen_from(s, j + 1)

strlen(s) == strlen_from(s, 0)

\* hash(const char*) passing the size of the string with its terminator
hash_cstr_terminated(Bits, s) ==
    hash_ptr(Bits, s, strlen(s) + 1, 0, FALSE, 0, Offset(Bits))

\* hash(const char* s)
hash_cstr(Bits, s) ==
    hash_ptr(Bits, s, strlen(s), 0, FALSE, 0, Offset(Bits))

\* hash(char (&s)[l]): the length is not inferred from the array
hash_array(Bits, s) == hash_cstr(Bits, CharPtr(s))

\* hash(const std::string& str): str is the string's bytes
hash_string(Bits, str) ==
    hash_ptr(Bits, CharPtr(CStr(str)), Len(str), 0, FALSE, 0, Offset(Bits))

\* hash(const std::basic_string_view<C>& str): str is the viewed bytes
hash_string_view(Bits, str) ==
    hash_ptr(Bits, CharPtr(str), Len(str), 0, FALSE, 0, Offset(Bits))

(***************************************************************************)
(* User-defined literal operators: s points to the literal's characters     *)
(* (terminated), l is the literal's length.                                 *)
(***************************************************************************)
op_fnv1a32(s, l) == hash_ptr(32, s, l, 0, FALSE, 0, Offset(32))
op_fnv1a64(s, l) == hash_ptr(64, s, l, 0, FALSE, 0, Offset(64))
op_fnv1a128(s, l) == hash_ptr(128, s, l, 0, FALSE, 0, Offset(128))
op_strhash(s, l) == hash_ptr(128, s, l, 0, FALSE, 0, Offset(128))

\* operator"" _fnv1a<Bits>
op_fnv1a(Bits, s, l) ==
    CASE Bits = 32 -> op_fnv1a32(s, l)
      [] Bits = 64 -> op_fnv1a64(s, l)
      [] Bits = 128 -> op_fnv1a128(s, l)

(***************************************************************************)
(* namespace strhash_lower                                                  *)
(***************************************************************************)
\* operator[] with `c < 'Z'` for `c <= 'Z'`
lowercase_at_exclusive(c) == IF c >= 65 /\ c < 90 THEN c + 97 - 65 ELSE c

\* _lowercase_container::operator[]: c is the element of the wrapped
\* container; the result has type int
lowercase_at(c) == IF c >= 65 /\ c <= 90 THEN c + 97 - 65 ELSE c

\* _lowercase_container(container), as the sequence of what operator[]
\* returns at each index
lowercase_container(container) ==
    [i \in 1..Len(container) |-> lowercase_at(container[i])]

\* strhash_lower::hash(const T& container, size)
strhash_lower_hash(container, size) ==
    hash_container(128, lowercase_container(container), size, 0, FALSE, 0, Offset(128))

\* strhash_lower::hash(const std::string& str)
strhash_lower_hash_string(str) ==
    strhash_lower_hash(CharPtr(CStr(str)), Len(str))

\* strhash_lower::hash(const std::basic_string_view<C>& str)
strhash_lower_hash_string_view(str) ==
    strhash_lower_hash(CharPtr(str), Len(str))

\* operator"" _strhash_lower
op_strhash_lower(s, l) == strhash_lower_hash(s, l)

(***************************************************************************)
(* Inputs.                                                                  *)
(***************************************************************************)
\* byte values the generated buffers are made of: the zero byte, a capital
\* letter and a byte above 0x7f
Alphabet == {0, 65, 233}

RECURSIVE SeqsUpTo(_, _)
SeqsUpTo(S, n) ==
    IF n = 0 THEN {<< >>}
    ELSE LET shorter == SeqsUpTo(S, n - 1)
         IN  shorter \cup {Append(q, e) : q \in {r \in shorter : Len(r) = n - 1}, e \in S}

\* the literals the documentation and the tests of the hash name
hello == Bytes("hello")
Hello == Bytes("Hello")
HELLO == Bytes("HELLO")
he1o == Bytes("he1!o")
hE1o == Bytes("hE1!o")
abc == Bytes("abc")
AbcNulDef == Bytes("abc") \o << 0 >> \o Bytes("def")
AbcCommaDef == Bytes("abc") \o << 44 >> \o Bytes("def")

Literals == {hello, Hello, HELLO, he1o, hE1o, abc, AbcNulDef, AbcCommaDef}

\* buffers of one byte: the values next to each comparison the code makes
\* ('A' is 0x41, 'Z' is 0x5a, the sign bit is 0x80) and those letters with
\* the sign bit set
EdgeBytes == {1, 64, 65, 90, 91, 96, 97, 122, 123, 127, 128, 193, 218, 255}

\* the buffers the hash is called on
Buffers == SeqsUpTo(Alphabet, MaxLen) \cup {<< b >> : b \in EdgeBytes} \cup Literals

\* the buffers the lowercase hash is called on: every byte value as well
LowerBuffers == Buffers \cup {<< b >> : b \in 0..255}

\* the keys of dispatch() and strings that are not keys
poney == Bytes("poney")
elephant == Bytes("elephant")
dog == Bytes("dog")
kitten == Bytes("kitten")
Keys == {poney, elephant, dog, kitten}

Words == Keys \cup {Bytes("cat"), Bytes("Dog"), Bytes("do"), Bytes("dogs"), Bytes("kitte"), << >>}

\* the argument vectors main is started with
Argvs == SeqsUpTo(Words, MaxArgs)

\* the values passed for the seed parameter
AllOnes(Bits) == [k \in 1..Limbs(Bits) |-> 255]
Seeds(Bits) == {Offset(Bits), AllOnes(Bits)}

\* the stop bytes tried on buffer b: none (0), every byte of b, and one
\* (',') that b may not hold
Stops(b) == {0, 44} \cup {b[i] : i \in 1..Len(b)}

(***************************************************************************)
(* main.cpp: dispatch                                                       *)
(***************************************************************************)
\* the constants of the case labels, "<key>"_fnv1a128, as the compiler
\* evaluates them
CaseConstants ==
    [key \in Keys |-> op_fnv1a128(CharPtr(CStr(key)), Len(key)).hash]

\* dispatch(match), the labels holding the constants `labels`
dispatch(labels, match) ==
    CASE match = labels[poney] -> "I want one, too!"
      [] match = labels[elephant] -> "Not in my apartment please!"
      [] match = labels[dog] -> "Good puppy!"
      [] match = labels[kitten] -> "Aawwwwwwww!"
      [] OTHER -> "Don't know this animal!"

(***************************************************************************)
(* State.                                                                   *)
(***************************************************************************)
VARIABLES
    mem,          \* the bytes of the buffer the hash is called on
    call,         \* the call made: entry point and arguments
    ret,          \* the value the call returned
    stopLen,      \* the size_t the caller passes the address of
    written,      \* whether the call stored to stopLen
    reads,        \* how many elements of the source the call read
    argv,         \* main: argv[1..argc-1], the bytes of each argument
    pc,           \* main: position
    i,            \* main: loop counter of the demo
    out,          \* main: lines written to std::cout by the demo
    elapsed_if,   \* bench: duration of the if phase, ms
    elapsed_case, \* bench: duration of the switch phase, ms
    factor,       \* bench: the ratio
    divided,      \* bench: the divisor the division was evaluated with
    cases         \* dispatch: the constant of each case label

hashvars == << mem, call, ret, stopLen, written, reads >>
mainvars == << argv, pc, i, out, elapsed_if, elapsed_case, factor, divided, cases >>
vars == << hashvars, mainvars >>

NoCall == [op |-> "none"]

HashIdle ==
    /\ call = NoCall
    /\ ret = << >>
    /\ stopLen = 0
    /\ written = FALSE
    /\ reads = 0

MainIdle ==
    /\ pc = "main"
    /\ i = 1
    /\ out = << >>
    /\ elapsed_if = 0
    /\ elapsed_case = 0
    /\ factor = 0
    /\ divided = -1
    /\ cases = CaseConstants

\* the hash is called once on a buffer
Init ==
    /\ mem \in Buffers
    /\ HashIdle
    /\ argv = << >>
    /\ MainIdle

\* the program is started with arguments
InitMain ==
    /\ mem = << >>
    /\ HashIdle
    /\ argv \in Argvs
    /\ MainIdle

\* the call returns loop state r
Returns(c, r) ==
    /\ call = NoCall
    /\ call' = c
    /\ ret' = r.hash
    /\ stopLen' = r.stopLen
    /\ written' = r.written
    /\ reads' = r.reads
    /\ UNCHANGED << mem, mainvars >>

(***************************************************************************)
(* Calls of the hash.                                                       *)
(***************************************************************************)
HashContainer ==
    \E Bits \in Widths, l \in 0..Len(mem), stop \in Stops(mem), L \in BOOLEAN :
        \E hash \in Seeds(Bits) :
            Returns([op |-> "hash_container", Bits |-> Bits, l |-> l, stop |-> stop,
                     L |-> L, hash |-> hash],
                    hash_container(Bits, CharPtr(mem), l, stop, L, stopLen, hash))

\* C is char: the stop template argument is a char value
HashPtr ==
    \E Bits \in Widths, l \in 0..Len(mem), stop \in Stops(mem) \cap 0..127, L \in BOOLEAN :
        Returns([op |-> "hash_ptr", Bits |-> Bits, l |-> l, stop |-> stop,
                 L |-> L, hash |-> Offset(Bits)],
                hash_ptr(Bits, CharPtr(mem), l, stop, L, stopLen, Offset(Bits)))

\* the call of an entry point that takes the source alone
Plain(op, Bits, r) ==
    Returns([op |-> op, Bits |-> Bits, l |-> Len(mem), stop |-> 0, L |-> FALSE,
             hash |-> Offset(Bits)], r)

\* a const char array initialised from a literal: mem and its terminator
HashConstArray ==
    \E Bits \in Widths : Plain("hash_const_array", Bits, hash_const_array(Bits, CStr(mem)))

\* a char array holding a string: the first zero ends it
HashArray ==
    \E Bits \in Widths : Plain("hash_array", Bits, hash_array(Bits, CStr(mem)))

HashCStr ==
    \E Bits \in Widths : Plain("hash_cstr", Bits, hash_cstr(Bits, CharPtr(CStr(mem))))

HashString ==
    \E Bits \in Widths : Plain("hash_string", Bits, hash_string(Bits, mem))

HashStringView ==
    \E Bits \in Widths : Plain("hash_string_view", Bits, hash_string_view(Bits, mem))

\* "..."_fnv1a32, "..."_fnv1a64, "..."_fnv1a128
Literal ==
    \E Bits \in Widths :
        Plain("op_fnv1a", Bits, op_fnv1a(Bits, CharPtr(CStr(mem)), Len(mem)))

\* "..."_strhash
LiteralStrhash ==
    Plain("op_strhash", 128, op_strhash(CharPtr(CStr(mem)), Len(mem)))

LowerHash ==
    \E size \in 0..Len(mem) :
        Returns([op |-> "strhash_lower_hash", Bits |-> 128, l |-> size, stop |-> 0,
                 L |-> FALSE, hash |-> Offset(128)],
                strhash_lower_hash(CharPtr(mem), size))

LowerHashString ==
    Plain("strhash_lower_hash_string", 128, strhash_lower_hash_string(mem))

LowerHashStringView ==
    Plain("strhash_lower_hash_string_view", 128, strhash_lower_hash_string_view(mem))

\* "..."_strhash_lower
LiteralLower ==
    Plain("op_strhash_lower", 128, op_strhash_lower(CharPtr(CStr(mem)), Len(mem)))

Next ==
    \/ HashContainer
    \/ HashPtr
    \/ HashConstArray
    \/ HashArray
    \/ HashCStr
    \/ HashString
    \/ HashStringView
    \/ Literal
    \/ LiteralStrhash
    \/ LowerHash
    \/ LowerHashString
    \/ LowerHashStringView
    \/ LiteralLower

Spec == Init /\ [][Next]_vars

\* the lowercase hash is called once on a buffer
InitLower ==
    /\ mem \in LowerBuffers
    /\ HashIdle
    /\ argv = << >>
    /\ MainIdle

NextLower ==
    \/ LowerHash
    \/ LowerHashString
    \/ LowerHashStringView
    \/ LiteralLower

SpecLower == InitLower /\ [][NextLower]_vars

(***************************************************************************)
(* main.cpp: main and bench.                                                *)
(***************************************************************************)
\* argc
argc == Len(argv) + 1

\* main: `if (argc == 1) bench();`
MainStart ==
    /\ pc = "main"
    /\ pc' = IF argc = 1 THEN "bench_if" ELSE "demo"
    /\ UNCHANGED << hashvars, argv, i, out, elapsed_if, elapsed_case, factor, divided, cases >>

\* bench: the if phase; the clock decides the duration
BenchIf ==
    /\ pc = "bench_if"
    /\ \E elapsed \in 0..MaxMs : elapsed_if' = elapsed
    /\ pc' = "bench_case"
    /\ UNCHANGED << hashvars, argv, i, out, elapsed_case, factor, divided, cases >>

\* bench: the switch phase
BenchCase ==
    /\ pc = "bench_case"
    /\ \E elapsed \in 0..MaxMs : elapsed_case' = elapsed
    /\ pc' = "bench_factor"
    /\ UNCHANGED << hashvars, argv, i, out, elapsed_if, factor, divided, cases >>

\* bench: `factor = (elapsed_if * 100) / elapsed_case` and its output.  A
\* division by zero is undefined: the process is killed (SIGFPE), or goes
\* on with some value
BenchFactor ==
    /\ pc = "bench_factor"
    /\ divided' = elapsed_case
    /\ IF elapsed_case # 0
       THEN /\ factor' = (elapsed_if * 100) \div elapsed_case
            /\ pc' = "demo"
       ELSE \/ /\ pc' = "killed"
               /\ UNCHANGED factor
            \/ /\ pc' = "demo"
               /\ factor' \in {0, elapsed_if * 100}
    /\ UNCHANGED << hashvars, argv, i, out, elapsed_if, elapsed_case, cases >>

\* main: one iteration of the demo loop
Demo ==
    /\ pc = "demo"
    /\ i < argc
    /\ out' = Append(out, dispatch(cases, hash_cstr(128, CharPtr(CStr(argv[i]))).hash))
    /\ i' = i + 1
    /\ UNCHANGED << hashvars, argv, pc, elapsed_if, elapsed_case, factor, divided, cases >>

\* main: `return 0`
MainReturn ==
    /\ pc = "demo"
    /\ ~(i < argc)
    /\ pc' = "exit"
    /\ UNCHANGED << hashvars, argv, i, out, elapsed_if, elapsed_case, factor, divided, cases >>

NextMain ==
    \/ MainStart
    \/ BenchIf
    \/ BenchCase
    \/ BenchFactor
    \/ Demo
    \/ MainReturn

SpecMain == InitMain /\ [][NextMain]_vars

(***************************************************************************)
(* Reference FNV-1a, written as the FNV reference code writes it: the       *)
(* multiplication by the prime 2^(8*shift) + low is a shift and an add.     *)
(***************************************************************************)
RefShift(Bits) == CASE Bits = 32 -> 3 [] Bits = 64 -> 5 [] Bits = 128 -> 11

\* 0x193, 0x1b3, 0x13b
RefLow(Bits) == CASE Bits = 32 -> 403 [] Bits = 64 -> 435 [] Bits = 128 -> 315

\* bit n of a
Bit(a, n) == (a \div (2 ^ n)) % 2

RefXor8(a, b) ==
    LET d(n) == (IF Bit(a, n) # Bit(b, n) THEN 1 ELSE 0) * (2 ^ n)
    IN  d(0) + d(1) + d(2) + d(3) + d(4) + d(5) + d(6) + d(7)

\* h * m modulo 2^Bits, for a small m
RECURSIVE RefScale(_, _, _, _)
RefScale(h, m, k, carry) ==
    IF k > Len(h) THEN << >>
    ELSE LET t == h[k] * m + carry
         IN  << t % 256 >> \o RefScale(h, m, k + 1, t \div 256)

\* a + b modulo 2^Bits
RECURSIVE RefAdd(_, _, _, _)
RefAdd(a, b, k, carry) ==
    IF k > Len(a) THEN << >>
    ELSE LET t == a[k] + b[k] + carry
         IN  << t % 256 >> \o RefAdd(a, b, k + 1, t \div 256)

\* h << (8 * n) modulo 2^Bits
RefShl(h, n) == [k \in 1..Len(h) |-> IF k > n THEN h[k - n] ELSE 0]

RefStep(Bits, h, b) ==
    LET x == [h EXCEPT ![1] = RefXor8(@, b)]
    IN  RefAdd(RefShl(x, RefShift(Bits)), RefScale(x, RefLow(Bits), 1, 0), 1, 0)

\* the FNV-1a fold of the bytes of s, in index order, from accumulator h
RECURSIVE RefFrom(_, _, _)
RefFrom(Bits, h, s) ==
    IF s = << >> THEN h ELSE RefFrom(Bits, RefStep(Bits, h, Head(s)), Tail(s))

\* the offset bases as the FNV specification publishes them
RefBasis(Bits) ==
    CASE Bits = 32 -> Hex("811c9dc5", 32)
      [] Bits = 64 -> Hex("cbf29ce484222325", 64)
      [] Bits = 128 -> Hex("6c62272e07bb014262b821756295c58d", 128)

RefFnv1a(Bits, s) == RefFrom(Bits, RefBasis(Bits), s)

\* the first l bytes of the buffer
Prefix(l) == SubSeq(mem, 1, l)

\* the call went to the engine with explicit arguments
Engine == call.op \in {"hash_container", "hash_ptr"}

\* the call went through the lowercase adapter
Lower ==
    call.op \in {"strhash_lower_hash", "strhash_lower_hash_string",
                 "strhash_lower_hash_string_view", "op_strhash_lower"}

\* C1: with no stop byte and the default seed, the engine folds all l bytes,
\* zero bytes included, in index order, and returns the reference FNV-1a
\* (xor, then multiply by the prime, modulo 2^Bits) at every width.
C1_MatchesReference ==
    (Engine /\ call.stop = 0 /\ call.hash = Offset(call.Bits))
        => /\ ret = RefFnv1a(call.Bits, Prefix(call.l))
           /\ reads = call.l

C1_Witness ==
    /\ call.op = "hash_container"
    /\ call.Bits = 128
    /\ call.stop = 0
    /\ call.l = 7
    /\ \E k \in 1..Len(mem) : mem[k] = 0
    /\ call.hash = Offset(128)
    /\ ret = RefFnv1a(128, mem)

\* the published FNV-1a hashes of "hello"
HelloVector(Bits) ==
    CASE Bits = 32 -> Hex("4f9f2cab", 32)
      [] Bits = 64 -> Hex("a430d84680aabd0b", 64)
      [] Bits = 128 -> Hex("e3e1efd54283d94f7081314b599d31b3", 128)

\* C2: the 128-bit constants built by Pack128 are the published 128-bit
\* prime and offset basis, and the literal operators hash "hello" to the
\* published test vectors at 32, 64 and 128 bits.
C2_HelloVectors ==
    (call.op = "op_fnv1a" /\ mem = hello)
        => /\ ret = HelloVector(call.Bits)
           /\ Prime(32) = Hex("01000193", 32)
           /\ Prime(64) = Hex("100000001b3", 64)
           /\ Prime(128) = Hex("1000000000000000000013b", 128)
           /\ Offset(call.Bits) = RefBasis(call.Bits)

C2_Witness ==
    /\ call.op = "op_fnv1a"
    /\ mem = hello
    /\ call.Bits = 128
    /\ ret = Hex("e3e1efd54283d94f7081314b599d31b3", 128)

\* C3 as the specification states it: "abc\0def" hashed with stop byte 0 and
\* length 7 equals "abc" hashed with length 3, and the stop position is 4.
C3_Original ==
    (Engine /\ mem = AbcNulDef /\ call.stop = 0 /\ call.l = 7 /\ call.L
            /\ call.hash = Offset(call.Bits))
        => /\ ret = RefFnv1a(call.Bits, abc)
           /\ stopLen = 4

\* C3, amended: stop byte 0 is the engine's "no stop byte": "abc\0def" with
\* stop byte 0 and length 7 is folded whole, zero byte included, and no stop
\* position is stored.  With a non-zero stop byte in the place of the zero
\* ("abc,def", stop byte ',', length 7) the hash equals that of "abc" with
\* length 3 and the stop position is 4.
C3_StopZeroIsNoStop ==
    /\ (Engine /\ mem = AbcNulDef /\ call.stop = 0 /\ call.l = 7
               /\ call.hash = Offset(call.Bits))
           => /\ ret = RefFnv1a(call.Bits, AbcNulDef)
              /\ ret # RefFnv1a(call.Bits, abc)
              /\ reads = 7
              /\ ~written
              /\ stopLen = 0
    /\ (Engine /\ mem = AbcCommaDef /\ call.stop = 44 /\ call.l = 7
               /\ call.hash = Offset(call.Bits))
           => /\ ret = RefFnv1a(call.Bits, abc)
              /\ (call.L => written /\ stopLen = 4)

C3_Witness ==
    /\ call.op = "hash_ptr"
    /\ mem = AbcNulDef
    /\ call.stop = 0
    /\ call.l = 7
    /\ call.L
    /\ reads = 7
    /\ ~written

\* the byte b with 'A'..'Z' mapped to 'a'..'z'
LowerByte(b) == IF b \in 65..90 THEN b + 32 ELSE b

LowerBytes(s) == [k \in 1..Len(s) |-> LowerByte(s[k])]

\* C4: the case-insensitive hash of the first l bytes is the 128-bit FNV-1a
\* of those bytes with 'A'..'Z' mapped to 'a'..'z' and every other byte
\* value, 0x80..0xff included, unchanged; "Hello", "HELLO" and "hello" hash
\* alike.
C4_LowerIsFnvOfLowered ==
    Lower => /\ ret = RefFnv1a(128, LowerBytes(Prefix(call.l)))
             /\ (mem \in {Hello, HELLO, hello} /\ call.l = 5)
                    => ret = RefFnv1a(128, hello)

C4_Witness ==
    /\ call.op = "strhash_lower_hash"
    /\ mem = hE1o
    /\ call.l = 5
    /\ ret = RefFnv1a(128, he1o)
    /\ ret # RefFnv1a(128, hello)

\* the entry points that find the length of the source themselves
Wrappers ==
    {"hash_const_array", "hash_array", "hash_cstr", "hash_string", "hash_string_view",
     "op_fnv1a", "op_strhash"}

\* C5: on a string without zero byte, stored with its terminator, every
\* entry point returns what the engine returns on exactly the Len(mem)
\* bytes of the string.
C5_WrappersAgree ==
    ((call.op \in Wrappers \/ (call.op = "hash_ptr" /\ call.l = Len(mem) /\ call.stop = 0))
            /\ \A k \in 1..Len(mem) : mem[k] # 0)
        => /\ ret = hash_container(call.Bits, CharPtr(mem), Len(mem), 0, FALSE, 0,
                                   Offset(call.Bits)).hash
           /\ reads = Len(mem)

C5_Witness ==
    /\ call.op = "hash_array"
    /\ mem = hello
    /\ call.Bits = 64
    /\ ret = hash_container(64, CharPtr(mem), 5, 0, FALSE, 0, Offset(64)).hash

kitte == Bytes("kitte")

\* the answer dispatch() is to give for argument a
Answer(a) ==
    CASE a = Bytes("poney") -> "I want one, too!"
      [] a = Bytes("elephant") -> "Not in my apartment please!"
      [] a = Bytes("dog") -> "Good puppy!"
      [] a = Bytes("kitten") -> "Aawwwwwwww!"
      [] OTHER -> "Don't know this animal!"

\* C6: the four case constants are pairwise distinct, every argument that
\* is a key selects the branch of that key, and every other argument of the
\* test set selects the default branch.
C6_DispatchSelectsKey ==
    /\ \A a, b \in Keys : a # b => cases[a] # cases[b]
    /\ \A k \in 1..Len(out) : out[k] = Answer(argv[k])

C6_Witness ==
    /\ pc = "exit"
    /\ argv = << kitten, kitte >>
    /\ out = << "Aawwwwwwww!", "Don't know this animal!" >>

\* C7: bench() never evaluates (elapsed_if * 100) / elapsed_case with a
\* zero divisor.
C7_RatioGuarded == divided # 0

\* C8: with length 0 the engine reads no element and returns its seed; with
\* the default seed that is the offset basis of the width; the same holds
\* for the array wrapper on the empty literal and for the lowercase hash.
C8_ZeroLength ==
    /\ ((Engine \/ Lower) /\ call.l = 0)
           => /\ reads = 0
              /\ ret = call.hash
              /\ ~written
              /\ (call.hash = Offset(call.Bits) => ret = RefBasis(call.Bits))
    /\ (call.op = "hash_const_array" /\ mem = << >>)
           => /\ reads = 0
              /\ ret = RefBasis(call.Bits)

C8_Witness ==
    /\ call.op = "hash_container"
    /\ call.l = 0
    /\ Len(mem) = 3
    /\ call.stop # 0
    /\ call.hash = AllOnes(call.Bits)
    /\ ret = AllOnes(call.Bits)
    /\ reads = 0

\* the smallest index (from 0) at which s holds c
First(s, c) == CHOOSE k \in 0..(Len(s) - 1) :
                   /\ s[k + 1] = c
                   /\ \A m \in 0..(k - 1) : s[m + 1] # c

Occurs(s, c) == \E k \in 1..Len(s) : s[k] = c

\* C9: with a stop byte c in 1..255 that occurs among the first l bytes, k
\* the index of its first occurrence, the hash is the fold of the k bytes
\* before it from the seed (the seed itself when k = 0), and a supplied
\* slot holds k + 1.
C9_StopsAtFirstStopByte ==
    (Engine /\ call.stop # 0 /\ Occurs(Prefix(call.l), call.stop))
        => LET k == First(Prefix(call.l), call.stop)
           IN  /\ ret = RefFrom(call.Bits, call.hash, Prefix(k))
               /\ (call.L => written /\ stopLen = k + 1)
               /\ reads = k + 1

C9_Witness ==
    /\ call.op = "hash_container"
    /\ call.stop = 233
    /\ call.L
    /\ mem = << 65, 233, 233 >>
    /\ call.l = 3
    /\ stopLen = 2
    /\ ret = RefFrom(call.Bits, call.hash, << 65 >>)

\* C10 as stated: every stop-byte call given a slot has stored the stop
\* offset to it when it returns.
C10_Original ==
    (Engine /\ call.stop # 0 /\ call.L) => written

\* C10, amended: a stop-byte call given a slot stores to it exactly when the
\* stop byte occurs among the first l bytes; when it does not occur, all l
\* bytes are folded and the slot is left as the caller set it.
C10_SlotWrittenOnlyOnStop ==
    (Engine /\ call.stop # 0 /\ call.L)
        => /\ written <=> Occurs(Prefix(call.l), call.stop)
           /\ ~written => (stopLen = 0 /\ reads = call.l)

C10_Witness ==
    /\ call.op = "hash_container"
    /\ call.stop = 44
    /\ call.L
    /\ call.l = 3
    /\ mem = << 65, 0, 233 >>
    /\ ~written
    /\ stopLen = 0
    /\ reads = 3
====
